---------------------------- MODULE Spec2Model ----------------------------
(***************************************************************************)
(* Model of the crawl engine of revize-ai (src/server/crawler.ts, the      *)
(* puppeteer implementation, lines 1-1644): URL scope classification, the  *)
(* per-page fetch with its retries, the breadth-first frontier scheduler   *)
(* and the final statistics of crawlWebsite.                               *)
(***************************************************************************)
EXTENDS Integers, Sequences, FiniteSets, TLC

(***************************************************************************)
(* Bounds of the model.                                                    *)
(***************************************************************************)
\* the page limit of the crawl loop; the source's literal is 100
\* (crawler.ts:1295), scaled down so that the limit is reached
PageCap == 4
\* the largest maxDepth argument a crawl is started with (the API allows 1..5)
MaxDepthArg == 3
\* concurrent POST /api/sitemaps/:crawlId/improve requests on one crawl
ImproveRequests == 2
\* retryCount is only ever compared with MAX_RETRIES, so every value above
\* MAX_RETRIES behaves alike; the model lets it saturate at RetryCap
RetryCap == 3
EvalRetriesMax == 2
\* the largest pagesFound of a CrawlResult handed to the worker
WorkerPages == 2
\* the number of progress callbacks the worker receives during one crawl
WorkerCalls == 2
\* the largest number of API requests pending at once
PendingMax == 2
\* the largest retry-after value, in seconds, a 429 response carries
RetryAfterMax == 60

(***************************************************************************)
(* Program constants.                                                      *)
(***************************************************************************)
MAX_RETRIES == 2
DEFAULT_TIMEOUT == 15000
NETWORK_IDLE_TIMEOUT == 5000
\* setTimeout(checkNavigation, 100)
PollInterval == 100
\* the settling delay of waitForNavigationComplete when no navigation is in progress
SettleDelay == 200
\* the delay before a 429 retry when the response has no retry-after header
RateLimitBackoff == 5000

\* id "root" of the node made up when there is no page to build from
FallbackRootId == -2

\* parentId of the seed entry (null)
Null == -1

(***************************************************************************)
(* URLs.  A URL is the parsed form of an absolute href: scheme, hostname,  *)
(* explicit port ("" when the href carries none), path, query and fragment *)
(* (sequences of characters; the fragment without its leading '#').        *)
(***************************************************************************)
Url(s, h, p, path, query, hash) ==
    [scheme |-> s, host |-> h, port |-> p, path |-> path, query |-> query, hash |-> hash]

Root   == Url("https", "a.com", "", <<"/">>, <<>>, <<>>)
RootTop == Url("https", "a.com", "", <<"/">>, <<>>, <<"t">>)
PageX  == Url("https", "a.com", "", <<"/", "x">>, <<>>, <<>>)
PageY  == Url("https", "a.com", "", <<"/", "y">>, <<>>, <<>>)
PageZ  == Url("https", "a.com", "", <<"/", "z">>, <<"k", "&", "'">>, <<>>)
Admin  == Url("https", "a.com", "", <<"/", "a">>, <<>>, <<>>)
HttpW  == Url("http",  "a.com", "", <<"/", "w">>, <<>>, <<>>)
Ext    == Url("https", "b.com", "", <<"/">>, <<>>, <<>>)
\* a client-side route, https://a.com/#/p
Route  == Url("https", "a.com", "", <<"/">>, <<>>, <<"/", "p">>)

\* the start URLs a crawl is called with
StartUrls == {Root, RootTop}

\* the link lists a rendered page may expose (already normalized and
\* de-duplicated by extractLinks)
LinkLists == { <<>>,
               <<PageX, PageY>>,
               <<PageY, PageZ>>,
               <<Admin, Ext>>,
               <<HttpW, Route>> }

\* URLs a navigation may end on when it does not stay on the requested URL
RedirectTargets == {PageX}

LinkUrls == UNION { {l[i] : i \in 1..Len(l)} : l \in LinkLists }

\* robots.txt outcomes: no policy, or a policy with Disallow path prefixes
NoPolicy == [loaded |-> FALSE, disallow |-> {}]
RobotsOutcomes == { NoPolicy, [loaded |-> TRUE, disallow |-> {<<"/", "a">>}],
                   [loaded |-> TRUE, disallow |-> {<<"/">>}] }

(***************************************************************************)
(* Pure functions.                                                         *)
(***************************************************************************)
Last(s) == s[Len(s)]
Front(s) == SubSeq(s, 1, Len(s) - 1)

IsPrefix(p, s) == Len(p) <= Len(s) /\ SubSeq(s, 1, Len(p)) = p

\* URL.origin: scheme, hostname and explicit port
Origin(u) == [scheme |-> u.scheme, host |-> u.host, port |-> u.port]

\* normalizeUrl on an absolute URL: a fragment that is not a '#/' route is
\* removed; one trailing '/' of the href is removed unless the href has a
\* fragment or is the bare origin root
normalizeUrl(u) ==
    LET h == IF u.hash # <<>> /\ u.hash[1] # "/" THEN <<>> ELSE u.hash
        v == [u EXCEPT !.hash = h]
    IN  IF h # <<>> THEN v
        ELSE IF v.query # <<>>
             THEN IF Last(v.query) = "/" THEN [v EXCEPT !.query = Front(v.query)] ELSE v
             ELSE IF Last(v.path) = "/" /\ v.path # <<"/">>
                  THEN [v EXCEPT !.path = Front(v.path)]
                  ELSE v

DefaultPort(scheme) == IF scheme = "https" THEN "443" ELSE "80"

EffectivePort(u) == IF u.port # "" THEN u.port ELSE DefaultPort(u.scheme)

\* isInternalLink(url, baseOrigin): same hostname and same effective port
isInternalLink(u, base) ==
    LET sameHost == u.host = base.host
        samePort == EffectivePort(u) = EffectivePort(base)
    IN  sameHost /\ samePort

\* URL.href as a sequence of characters (scheme and hostname are one token each)
Href(u) ==
    <<u.scheme, "://", u.host>>
    \o (IF u.port # "" THEN <<":", u.port>> ELSE <<>>)
    \o u.path
    \o (IF u.query # <<>> THEN <<"?">> \o u.query ELSE <<>>)
    \o (IF u.hash # <<>> THEN <<"#">> \o u.hash ELSE <<>>)

\* url.includes("#/")
IncludesHashRoute(u) ==
    LET h == Href(u) IN \E i \in 1..(Len(h) - 1) : h[i] = "#" /\ h[i + 1] = "/"

\* robots.isAllowed(url, USER_AGENT) of a loaded policy
isAllowed(policy, u) == \A p \in policy.disallow : ~IsPrefix(p, u.path)

(***************************************************************************)
(* State of one crawlWebsite call.                                         *)
(***************************************************************************)
VARIABLES
    pc,               \* position of crawlWebsite / crawlPage
    browser,          \* "none", "open" or "closed"
    maxDepth,         \* the maxDepth argument
    baseOrigin,       \* origin of the start URL
    normalizedStart,  \* normalizeUrl(startUrl, startUrl)
    robots,           \* result of getRobotsRules
    visited,          \* Set of URLs handed to crawlPage
    queue,            \* frontier: sequence of [url, depth, parentId]
    pages,            \* Map url -> record, in insertion order
    duplicates,       \* Set of URLs dequeued while already visited
    idCounter,
    cur,              \* the entry being fetched
    retryCount,       \* crawlPage's retryCount argument
    errorRetries,     \* retries made by the catch block for the fetch in progress
    recovered,        \* the attempt in progress has replaced its page
    openPages,        \* rendering pages currently open
    pageInfo,         \* value crawlPage returned to the scheduler
    result,           \* the CrawlResult
    fetched,          \* history: the URLs the scheduler called crawlPage for, in order
    enqueuedTwice,    \* history: the URLs pushed while an entry for them was queued
    lastProgress,     \* the argument of the latest onProgress call
    evScript,         \* safeEvaluate on its own: what each attempt meets,
    evMaxRetries,     \* its retry budget,
    evFallback,       \* its fallback argument,
    evAttempt,        \* its loop counter,
    evOut,            \* how it ended,
    evInfo,           \* and what the extraction of crawlPage made of it
    scopeUrl,         \* isInternalLink applied on its own: the url argument,
    scopeBase,        \* the baseOrigin argument,
    scopeOut          \* and whether it was applied, with the value returned

(***************************************************************************)
(* State of one startCrawlWorker call (db.ts 43-157).                      *)
(***************************************************************************)
VARIABLES
    wpc,              \* position of startCrawlWorker and of its background task
    wOutcome,         \* what crawlWebsite will do: "throws" or "returns"
    wError,           \* message of the error crawlWebsite throws
    wResult,          \* the CrawlResult crawlWebsite returns
    wCalls,           \* number of progress callbacks received
    progressEntry,    \* progressMap.get(crawlId)
    dbCrawl,          \* the persisted crawl record
    dbSitemap,        \* number of sitemap records of the crawl
    inflight,         \* throttled updateCrawl calls issued and not yet applied
    wTimer,           \* the clean-up timer of the finally block
    wSitemapError     \* message of the error met while creating the sitemap

(***************************************************************************)
(* normalizeUrl applied on its own, and to its own result.                 *)
(***************************************************************************)
VARIABLES
    normUrl,          \* the url argument, a string of characters
    normOnce,         \* normalizeUrl(url, base)
    normTwice         \* normalizeUrl(normalizeUrl(url, base), base)

(***************************************************************************)
(* One suspension of crawlPage, with the time it has lasted.               *)
(***************************************************************************)
VARIABLES
    waitKind,              \* "navigation", "pendingRequests" or "rateLimit"
    waitMode,              \* "timer": one setTimeout; "poll": checkNavigation
    waitArg,               \* the timer's delay, or the timeout of the poll, in ms
    waitClock,             \* ms since the suspension began
    waitState,             \* "idle", "waiting" or "resolved"
    navigationInProgress,
    pendingRequests

(***************************************************************************)
(* POST /api/sitemaps/:crawlId/improve, several requests on one crawl.     *)
(***************************************************************************)
VARIABLES
    apiKey,                \* process.env.OPENAI_API_KEY is set
    storedSitemap,         \* the sitemap document of the crawl, or NoSitemap
    reqPc,                 \* per request: "idle", "getSitemap", "analyzing",
                           \* "updating" or "answered"
    reqUser,               \* per request: req.user.id
    reqSitemap,            \* per request: the document getSitemapByCrawlId returned
    reqResponse,           \* per request: the status and message sent
    analyzeCalls,          \* calls of analyzeSitemap
    improvedWrites         \* updateSitemap calls that have landed

vars == <<pc, browser, maxDepth, baseOrigin, normalizedStart, robots, visited,
          queue, pages, duplicates, idCounter, cur, retryCount, errorRetries, recovered, openPages,
          pageInfo, result, fetched, enqueuedTwice, lastProgress,
          evScript, evMaxRetries, evFallback, evAttempt, evOut, evInfo,
          scopeUrl, scopeBase, scopeOut,
          wpc, wOutcome, wError, wResult, wCalls, progressEntry, dbCrawl,
          dbSitemap, inflight, wTimer, wSitemapError,
          normUrl, normOnce, normTwice,
          waitKind, waitMode, waitArg, waitClock, waitState, navigationInProgress,
          pendingRequests,
          apiKey, storedSitemap, reqPc, reqUser, reqSitemap, reqResponse,
          analyzeCalls, improvedWrites>>

scopeVars == <<scopeUrl, scopeBase, scopeOut>>
evalVars == <<evScript, evMaxRetries, evFallback, evAttempt, evOut, evInfo>>
workerVars == <<wpc, wOutcome, wError, wResult, wCalls, progressEntry, dbCrawl,
                dbSitemap, inflight, wTimer, wSitemapError>>
normVars == <<normUrl, normOnce, normTwice>>
waitVars == <<waitKind, waitMode, waitArg, waitClock, waitState, navigationInProgress,
              pendingRequests>>
improveVars == <<apiKey, storedSitemap, reqPc, reqUser, reqSitemap, reqResponse,
                 analyzeCalls, improvedWrites>>
restVars == <<workerVars, normVars, waitVars, improveVars>>
crawlVars == <<pc, browser, maxDepth, baseOrigin, normalizedStart, robots, visited,
               queue, pages, duplicates, idCounter, cur, retryCount, errorRetries, recovered, openPages,
               pageInfo, result, fetched, enqueuedTwice, lastProgress>>

NoEntry == [url |-> Root, depth |-> 0, parentId |-> Null]
NoInfo == [status |-> "none"]
NoResult == [pagesFound |-> 0, brokenLinks |-> 0, duplicatePages |-> 0]
NoOrigin == Origin(Root)

NotApplied == [applied |-> FALSE, value |-> FALSE]

\* no onProgress call yet
NoProgress == [pagesFound |-> 0, currentUrl |-> Root, queueSize |-> 0, progress |-> Null]

\* undefined / null
Undefined == "undefined"
NotCalled == [state |-> "running", value |-> Undefined]

CrawlInit ==
    /\ pc = "start"
    /\ browser = "none"
    /\ maxDepth \in 1..MaxDepthArg
    /\ baseOrigin = NoOrigin
    /\ normalizedStart = Root
    /\ robots = NoPolicy
    /\ visited = {}
    /\ queue = <<>>
    /\ pages = <<>>
    /\ duplicates = {}
    /\ idCounter = 0
    /\ cur = NoEntry
    /\ retryCount = 0
    /\ errorRetries = 0
    /\ recovered = FALSE
    /\ openPages = 0
    /\ pageInfo = NoInfo
    /\ result = NoResult
    /\ fetched = <<>>
    /\ enqueuedTwice = {}
    /\ lastProgress = NoProgress

ScopeIdle ==
    /\ scopeUrl = Root
    /\ scopeBase = NoOrigin
    /\ scopeOut = NotApplied

EvalIdle ==
    /\ evScript = <<>>
    /\ evMaxRetries = 0
    /\ evFallback = Undefined
    /\ evAttempt = 0
    /\ evOut = NotCalled
    /\ evInfo = NoInfo

NoMessage == <<>>
NoProgressEntry == [status |-> "absent"]
PendingCrawl == [status |-> "pending", pagesFound |-> 0, brokenLinks |-> 0,
                 duplicatePages |-> 0, errorMessage |-> NoMessage, completedAt |-> FALSE]

\* no worker has been started
WorkerIdle ==
    /\ wpc = "idle"
    /\ wOutcome = "returns"
    /\ wError = NoMessage
    /\ wResult = NoResult
    /\ wCalls = 0
    /\ progressEntry = NoProgressEntry
    /\ dbCrawl = PendingCrawl
    /\ dbSitemap = 0
    /\ inflight = {}
    /\ wTimer = "unset"
    /\ wSitemapError = NoMessage

\* normalizeUrl has not been applied
NormIdle ==
    /\ normUrl = Href(Root)
    /\ normOnce = NotApplied
    /\ normTwice = NotApplied

\* crawlPage is not suspended
WaitIdle ==
    /\ waitKind = "navigation"
    /\ waitMode = "timer"
    /\ waitArg = 0
    /\ waitClock = 0
    /\ waitState = "idle"
    /\ navigationInProgress = FALSE
    /\ pendingRequests = 0

Requests == 1..ImproveRequests

\* the user who owns the crawl, and another authenticated user
Users == {"owner", "other"}

\* getSitemapByCrawlId found no document
NoSitemap == [found |-> FALSE]

\* nothing has been sent for the request
NoResponse == [status |-> 0, message |-> ""]

\* no improve request has been received
ImproveIdle ==
    /\ apiKey = TRUE
    /\ storedSitemap = NoSitemap
    /\ reqPc = [r \in Requests |-> "idle"]
    /\ reqUser = [r \in Requests |-> "owner"]
    /\ reqSitemap = [r \in Requests |-> NoSitemap]
    /\ reqResponse = [r \in Requests |-> NoResponse]
    /\ analyzeCalls = 0
    /\ improvedWrites = 0

Init ==
    /\ CrawlInit
    /\ ScopeIdle
    /\ EvalIdle
    /\ WorkerIdle
    /\ NormIdle
    /\ WaitIdle
    /\ ImproveIdle

PageKeys == {pages[i].key : i \in 1..Len(pages)}


\* pages.get(url) / pages.has(url)
HasPage(pgs, url) == \E i \in 1..Len(pgs) : pgs[i].key = url

\* pages.set(url, rec): a Map keeps the position of a key it already holds
MapSet(pgs, rec) ==
    IF HasPage(pgs, rec.key)
    THEN [i \in 1..Len(pgs) |-> IF pgs[i].key = rec.key THEN rec ELSE pgs[i]]
    ELSE Append(pgs, rec)

(***************************************************************************)
(* crawlWebsite: launch, robots.txt, seed (crawler.ts 1254-1292).          *)
(***************************************************************************)
\* puppeteer.launch rejects: crawlWebsite throws before its try block
LaunchFails ==
    /\ pc = "start"
    /\ pc' = "threw"
    /\ UNCHANGED <<scopeVars, evalVars, restVars, enqueuedTwice, lastProgress,
                   browser, maxDepth, baseOrigin, normalizedStart, robots, visited,
                   queue, pages, duplicates, idCounter, cur, retryCount, errorRetries, recovered, openPages,
                   pageInfo, result, fetched>>

Setup ==
    /\ pc = "start"
    /\ \E startUrl \in StartUrls, policy \in RobotsOutcomes :
         /\ baseOrigin' = Origin(startUrl)
         /\ robots' = policy
         /\ normalizedStart' = normalizeUrl(startUrl)
         /\ queue' = <<[url |-> normalizeUrl(startUrl), depth |-> 0, parentId |-> Null]>>
    /\ browser' = "open"
    /\ pc' = "loop"
    /\ UNCHANGED <<scopeVars, evalVars, restVars, enqueuedTwice, lastProgress,
                   maxDepth, visited, pages, duplicates, idCounter, cur, retryCount, errorRetries,
                   recovered, openPages, pageInfo, result, fetched>>

(***************************************************************************)
(* The crawl loop (crawler.ts 1295-1386).                                  *)
(***************************************************************************)
\* the loop without its page limit
LoopCond_NoCap == Len(queue) > 0

\* while (queue.length > 0 && pages.size < 100)
LoopCond == Len(queue) > 0 /\ Len(pages) < PageCap

\* the dequeue-time guard left out
SkipVisited_Never(url) == FALSE

\* if (visited.has(url)) ... continue
SkipVisited(url) == url \in visited

\* if (depth > maxDepth) continue
SkipDepth(depth) == depth > maxDepth

\* the robots gate left out
SkipRobots_Never(url) == FALSE

\* a policy that could not be loaded taken as disallowing everything
SkipRobots_FailClosed(url) == ~robots.loaded \/ ~isAllowed(robots, url)

\* if (robots && !robots.isAllowed(url, USER_AGENT)) continue
SkipRobots(url) == robots.loaded /\ ~isAllowed(robots, url)

\* a dequeued entry that is dropped without a fetch
SkipEntry ==
    /\ pc = "loop"
    /\ LoopCond
    /\ LET e == Head(queue) IN
         /\ SkipVisited(e.url) \/ SkipDepth(e.depth) \/ SkipRobots(e.url)
         /\ duplicates' = IF SkipVisited(e.url) THEN duplicates \cup {e.url} ELSE duplicates
    /\ queue' = Tail(queue)
    /\ UNCHANGED <<scopeVars, evalVars, restVars, enqueuedTwice, lastProgress,
                   pc, browser, maxDepth, baseOrigin, normalizedStart, robots, visited,
                   pages, idCounter, cur, retryCount, errorRetries, recovered, openPages, pageInfo, result,
                   fetched>>

\* visited.add(url); crawlPage(browser, url, depth, baseOrigin)
StartFetch ==
    /\ pc = "loop"
    /\ LoopCond
    /\ LET e == Head(queue) IN
         /\ ~SkipVisited(e.url) /\ ~SkipDepth(e.depth) /\ ~SkipRobots(e.url)
         /\ visited' = visited \cup {e.url}
         /\ cur' = e
         /\ fetched' = Append(fetched, e.url)
    /\ queue' = Tail(queue)
    /\ retryCount' = 0
    /\ errorRetries' = 0
    /\ recovered' = FALSE
    /\ pc' = "crawlPage"
    /\ UNCHANGED <<scopeVars, evalVars, restVars, enqueuedTwice, lastProgress,
                   browser, maxDepth, baseOrigin, normalizedStart, robots, pages,
                   duplicates, idCounter, openPages, pageInfo, result>>

(***************************************************************************)
(* crawlPage (crawler.ts 474-1237), one attempt per opened page.           *)
(***************************************************************************)
SchedVars == <<scopeVars, evalVars, restVars, browser, maxDepth, baseOrigin, normalizedStart, robots,
               visited, queue, pages, duplicates, idCounter, cur, result, fetched,
               enqueuedTwice, lastProgress>>

\* the URLs page.url() may report after navigating to url
FinalUrls(url) == {url} \cup RedirectTargets

\* retryCount + 1 of the recursive call
NextRetry(rc) == IF rc < RetryCap THEN rc + 1 ELSE rc

\* if (retryCount < MAX_RETRIES)
RetryAllowed(rc) == rc < MAX_RETRIES

Broken(url, title) == [url |-> url, title |-> title, status |-> "broken", links |-> <<>>]

\* page = await browser.newPage()
NewPage ==
    /\ pc = "crawlPage"
    /\ openPages' = openPages + 1
    /\ pc' = "navigating"
    /\ UNCHANGED <<retryCount, errorRetries, recovered, pageInfo>>
    /\ UNCHANGED SchedVars

\* page.goto fails because the target closed the page
PageLost ==
    /\ pc = "navigating"
    /\ ~recovered
    /\ openPages' = openPages - 1
    /\ pc' = "recovering"
    /\ UNCHANGED <<retryCount, errorRetries, recovered, pageInfo>>
    /\ UNCHANGED SchedVars

\* if (page.isClosed()) page = await browser.newPage(), and page.goto again
ReplacePage ==
    /\ pc = "recovering"
    /\ openPages' = openPages + 1
    /\ pc' = "navigating"
    /\ recovered' = TRUE
    /\ UNCHANGED <<retryCount, errorRetries, pageInfo>>
    /\ UNCHANGED SchedVars

\* the 429 retry started without closing the page
RateLimited_PageLeftOpen ==
    /\ pc = "navigating"
    /\ retryCount' = NextRetry(retryCount)
    /\ pc' = "crawlPage"
    /\ UNCHANGED <<openPages, errorRetries, pageInfo>>
    /\ recovered' = FALSE
    /\ UNCHANGED SchedVars

\* response.status() === 429: close the page, wait, crawlPage(..., retryCount + 1)
RateLimited ==
    /\ pc = "navigating"
    /\ openPages' = openPages - 1
    /\ retryCount' = NextRetry(retryCount)
    /\ pc' = "crawlPage"
    /\ UNCHANGED <<errorRetries, pageInfo>>
    /\ recovered' = FALSE
    /\ UNCHANGED SchedVars

\* the error page returned with links to follow
HttpError_WithLinks ==
    /\ pc = "navigating"
    /\ openPages' = openPages - 1
    /\ pageInfo' = [Broken(cur.url, "Error status") EXCEPT !.links = <<PageX, PageY>>]
    /\ pc' = "returned"
    /\ errorRetries' = 0
    /\ UNCHANGED retryCount
    /\ recovered' = FALSE
    /\ UNCHANGED SchedVars

\* !response.ok(): broken, no links
HttpError ==
    /\ pc = "navigating"
    /\ openPages' = openPages - 1
    /\ pageInfo' = Broken(cur.url, "Error status")
    /\ pc' = "returned"
    /\ errorRetries' = 0
    /\ UNCHANGED retryCount
    /\ recovered' = FALSE
    /\ UNCHANGED SchedVars

\* catch: a retryable error within the budget, crawlPage(..., retryCount + 1)
RetryAfterError ==
    /\ pc = "navigating"
    /\ RetryAllowed(retryCount)
    /\ openPages' = openPages - 1
    /\ retryCount' = NextRetry(retryCount)
    /\ pc' = "crawlPage"
    /\ errorRetries' = errorRetries + 1
    /\ UNCHANGED pageInfo
    /\ recovered' = FALSE
    /\ UNCHANGED SchedVars

\* the catch block throwing the error on instead of returning a PageInfo
FailAfterError_Rethrow ==
    /\ pc = "navigating"
    /\ \E retryable \in BOOLEAN : ~(RetryAllowed(retryCount) /\ retryable)
    /\ openPages' = openPages - 1
    /\ pc' = "threw"
    /\ UNCHANGED <<retryCount, errorRetries, pageInfo>>
    /\ recovered' = FALSE
    /\ UNCHANGED SchedVars

\* catch: an error that is not retryable, or the budget is used up
FailAfterError ==
    /\ pc = "navigating"
    /\ \E retryable \in BOOLEAN : ~(RetryAllowed(retryCount) /\ retryable)
    /\ openPages' = openPages - 1
    /\ pageInfo' = Broken(cur.url, "Error: message")
    /\ pc' = "returned"
    /\ errorRetries' = 0
    /\ UNCHANGED retryCount
    /\ recovered' = FALSE
    /\ UNCHANGED SchedVars

\* if (!page || page.isClosed()): the page was closed before extraction
PageClosed ==
    /\ pc = "navigating"
    /\ \E finalUrl \in FinalUrls(cur.url) :
         pageInfo' = Broken(finalUrl, "Error: Page closed")
    /\ openPages' = openPages - 1
    /\ pc' = "returned"
    /\ errorRetries' = 0
    /\ UNCHANGED retryCount
    /\ recovered' = FALSE
    /\ UNCHANGED SchedVars

\* title and links extracted: { url: finalUrl, title, status: "ok", links }
PageOk ==
    /\ pc = "navigating"
    /\ \E finalUrl \in FinalUrls(cur.url), links \in LinkLists :
         pageInfo' = [url |-> finalUrl, title |-> "Title", status |-> "ok", links |-> links]
    /\ openPages' = openPages - 1
    /\ pc' = "returned"
    /\ errorRetries' = 0
    /\ UNCHANGED retryCount
    /\ recovered' = FALSE
    /\ UNCHANGED SchedVars

(***************************************************************************)
(* Back in the loop: record the page, expand the frontier (1322-1363).     *)
(***************************************************************************)
\* links of a page at depth maxDepth expanded too
ExpandLinks_OffByOne(depth, links) == depth <= maxDepth /\ Len(links) > 0

\* if (depth < maxDepth && pageInfo.links.length > 0)
ExpandLinks(depth, links) == depth < maxDepth /\ Len(links) > 0

\* the scope test left out
AcceptLink_AnyHost(link) == link \notin visited

\* if (isInternalLink(link, baseOrigin)) { if (!visited.has(link)) queue.push
AcceptLink(link) == isInternalLink(link, baseOrigin) /\ link \notin visited

\* the new entries queued at the depth of the page they were found on
NewEntries_SameDepth(links, depth, id) ==
    LET acc == SelectSeq(links, AcceptLink)
    IN  [i \in 1..Len(acc) |-> [url |-> acc[i], depth |-> depth, parentId |-> id]]

NewEntries(links, depth, id) ==
    LET acc == SelectSeq(links, AcceptLink)
    IN  [i \in 1..Len(acc) |-> [url |-> acc[i], depth |-> depth + 1, parentId |-> id]]

\* the rounded ratio without the cap
ProgressPercent_Uncapped(size, queued) ==
    LET totalEstimated == IF size + queued > 1 THEN size + queued ELSE 1
    IN  (200 * size + totalEstimated) \div (2 * totalEstimated)

\* Math.min(95, Math.round((pages.size / Math.max(pages.size + queue.length, 1)) * 100))
ProgressPercent(size, queued) ==
    LET totalEstimated == IF size + queued > 1 THEN size + queued ELSE 1
        rounded == (200 * size + totalEstimated) \div (2 * totalEstimated)
    IN  IF rounded < 95 THEN rounded ELSE 95

\* the argument of the onProgress call at the end of a loop iteration
LoopProgress(pgs, q, url) ==
    [pagesFound |-> Len(pgs), currentUrl |-> url, queueSize |-> Len(q),
     progress |-> ProgressPercent(Len(pgs), Len(q))]

\* the argument of the onProgress call before the return
FinalProgress(pgs) ==
    [pagesFound |-> Len(pgs), currentUrl |-> Undefined, queueSize |-> 0, progress |-> 100]

\* Whether more than 2000 ms have passed since the last progress log, which
\* is no later than the start of the iteration.  A crawlPage whose navigation
\* got a response has waited PAGE_LOAD_WAIT_TIME = 2000 ms and more before it
\* returns; only one that ended in its catch block can have been quicker.
Elapsed(info) == IF info.title = "Error: message" THEN BOOLEAN ELSE {TRUE}

\* the new entries put at the front of the frontier instead of its end
RecordPage_Lifo ==
    /\ pc = "returned"
    /\ LET id == idCounter
           rec == [key |-> cur.url, url |-> pageInfo.url, title |-> pageInfo.title,
                   status |-> pageInfo.status, depth |-> cur.depth,
                   links |-> pageInfo.links, id |-> id, parentId |-> cur.parentId]
           new == IF ExpandLinks(cur.depth, pageInfo.links)
                  THEN NewEntries(pageInfo.links, cur.depth, id)
                  ELSE <<>>
       IN  /\ pages' = MapSet(pages, rec)
           /\ queue' = new \o queue
           /\ enqueuedTwice' = enqueuedTwice \cup
                  {new[i].url : i \in {j \in 1..Len(new) :
                                          \E k \in 1..Len(queue) : queue[k].url = new[j].url}}
    /\ \E elapsed \in Elapsed(pageInfo) :
          lastProgress' = IF elapsed THEN LoopProgress(pages', queue', cur.url)
                          ELSE lastProgress
    /\ idCounter' = idCounter + 1
    /\ pageInfo' = NoInfo
    /\ pc' = "loop"
    /\ UNCHANGED <<scopeVars, evalVars, restVars,
                   browser, maxDepth, baseOrigin, normalizedStart, robots, visited,
                   duplicates, cur, retryCount, errorRetries, recovered, openPages, result, fetched>>

\* the iteration that called crawlPage: the record is stored, the accepted
\* links are queued, and onProgress (taken as given) is called when more
\* than 2000 ms have passed since the last progress log
RecordPage ==
    /\ pc = "returned"
    /\ LET id == idCounter
           rec == [key |-> cur.url, url |-> pageInfo.url, title |-> pageInfo.title,
                   status |-> pageInfo.status, depth |-> cur.depth,
                   links |-> pageInfo.links, id |-> id, parentId |-> cur.parentId]
           new == IF ExpandLinks(cur.depth, pageInfo.links)
                  THEN NewEntries(pageInfo.links, cur.depth, id)
                  ELSE <<>>
       IN  /\ pages' = MapSet(pages, rec)
           /\ queue' = queue \o new
           /\ enqueuedTwice' = enqueuedTwice \cup
                  {new[i].url : i \in {j \in 1..Len(new) :
                                          \E k \in 1..Len(queue) : queue[k].url = new[j].url}}
    /\ \E elapsed \in Elapsed(pageInfo) :
          lastProgress' = IF elapsed THEN LoopProgress(pages', queue', cur.url)
                          ELSE lastProgress
    /\ idCounter' = idCounter + 1
    /\ pageInfo' = NoInfo
    /\ pc' = "loop"
    /\ UNCHANGED <<scopeVars, evalVars, restVars,
                   browser, maxDepth, baseOrigin, normalizedStart, robots, visited,
                   duplicates, cur, retryCount, errorRetries, recovered, openPages, result, fetched>>

(***************************************************************************)
(* After the loop (crawler.ts 1388-1496).                                  *)
(***************************************************************************)
\* the root record synthesized whatever the page set holds
WithRoot_Always(pgs) ==
    <<[key |-> normalizedStart, url |-> normalizedStart, title |-> "Home",
       status |-> "ok", depth |-> 0, links |-> <<>>, id |-> 0, parentId |-> Null]>> \o pgs

\* if (pages.size === 0) pages.set(normalizedStart, root page)
WithRoot(pgs) ==
    IF Len(pgs) = 0
    THEN <<[key |-> normalizedStart, url |-> normalizedStart, title |-> "Home",
            status |-> "ok", depth |-> 0, links |-> <<>>, id |-> 0, parentId |-> Null]>>
    ELSE pgs

\* for (const url of duplicates) pages.get(url).status = "duplicate"
MarkDuplicates(pgs, dups) ==
    [i \in 1..Len(pgs) |->
        IF pgs[i].key \in dups THEN [pgs[i] EXCEPT !.status = "duplicate"] ELSE pgs[i]]

CountStatus(pgs, st) == Cardinality({i \in 1..Len(pgs) : pgs[i].status = st})

\* broken pages left out of the count
PagesFound_NotBroken(pgs) == Len(pgs) - CountStatus(pgs, "broken")

\* pagesFound: pages.size
PagesFound(pgs) == Len(pgs)

\* brokenLinks: pages with status "broken"
BrokenCount(pgs) == CountStatus(pgs, "broken")

\* Array.from(pages.keys()).some(includes "#/") || some page links to a "#/" URL
isSPA(pgs) ==
    \E i \in 1..Len(pgs) :
        \/ IncludesHashRoute(pgs[i].key)
        \/ \E j \in 1..Len(pgs[i].links) : IncludesHashRoute(pgs[i].links[j])

\* A SitemapNode.  The tree is held as the list of its nodes in preorder,
\* each node naming its parent node (Null for the root); a node's children
\* are the nodes naming it, in list order.
SitemapNode(page, depth, parent) ==
    [id |-> page.id, url |-> page.url, title |-> page.title, depth |-> depth,
     status |-> page.status, parent |-> parent]

\* { id: "root", url: rootUrl, title: "Root", depth: 0, children: [], status: "ok" }
FallbackRoot(rootUrl) ==
    [id |-> FallbackRootId, url |-> rootUrl, title |-> "Root", depth |-> 0,
     status |-> "ok", parent |-> Null]

\* pageArray.find((p) => p.url === rootUrl) || pageArray[0]
FindRootPage(pageArray, rootUrl) ==
    LET hits == {i \in 1..Len(pageArray) : pageArray[i].url = rootUrl}
    IN  IF hits # {}
        THEN pageArray[CHOOSE i \in hits : \A j \in hits : i <= j]
        ELSE pageArray[1]

RECURSIVE Flatten(_)
Flatten(seqs) == IF seqs = <<>> THEN <<>> ELSE Head(seqs) \o Flatten(Tail(seqs))

\* buildNode: the page's node, then the subtrees of the pages whose parentId is its id
RECURSIVE buildNode(_, _, _)
buildNode(pageArray, page, parent) ==
    LET children == SelectSeq(pageArray, LAMBDA p : p.parentId = page.id)
    IN  <<SitemapNode(page, page.depth, parent)>>
        \o Flatten([i \in 1..Len(children) |-> buildNode(pageArray, children[i], page.id)])

buildTree(pgs, rootUrl) ==
    IF pgs = <<>>
    THEN <<FallbackRoot(rootUrl)>>
    ELSE buildNode(pgs, FindRootPage(pgs, rootUrl), Null)

\* collation order of the characters of the URLs at hand: punctuation before
\* letters, letters alphabetically
Collation == <<"http", "https", "://", ":", "?", "'", "/", "&", "#", "8080",
               "a", "a.com", "b.com", "c.com", "k", "p", "t", "w", "x", "y", "z">>

CollationRank(c) == CHOOSE i \in 1..Len(Collation) : Collation[i] = c

\* a.localeCompare(b) < 0
RECURSIVE LocaleLess(_, _)
LocaleLess(a, b) ==
    IF b = <<>> THEN FALSE
    ELSE IF a = <<>> THEN TRUE
    ELSE IF Head(a) = Head(b) THEN LocaleLess(Tail(a), Tail(b))
    ELSE CollationRank(Head(a)) < CollationRank(Head(b))

\* Array.prototype.sort with (a, b) => a.url.localeCompare(b.url), which is stable
RECURSIVE SortByUrl(_)
SortByUrl(nodes) ==
    IF nodes = <<>> THEN <<>>
    ELSE LET rest == SortByUrl(Front(nodes))
             n == Last(nodes)
             before == SelectSeq(rest, LAMBDA m : ~LocaleLess(Href(n.url), Href(m.url)))
             after == SelectSeq(rest, LAMBDA m : LocaleLess(Href(n.url), Href(m.url)))
         IN  before \o <<n>> \o after

buildFlatSitemap(pgs, rootUrl) ==
    LET pageArray == SelectSeq(pgs, LAMBDA p : p.status = "ok")
    IN  IF pageArray = <<>>
        THEN <<FallbackRoot(rootUrl)>>
        ELSE LET rootPage == FindRootPage(pageArray, rootUrl)
                 others == SelectSeq(pageArray, LAMBDA p : p.url # rootUrl)
                 allUrls == [i \in 1..Len(others) |-> SitemapNode(others[i], 1, rootPage.id)]
             IN  <<SitemapNode(rootPage, 0, Null)>> \o SortByUrl(allUrls)

\* sitemap = isSPA ? buildFlatSitemap(pages, normalizedStart) : buildTree(pages, normalizedStart)
Sitemap(pgs, rootUrl) ==
    IF isSPA(pgs) THEN buildFlatSitemap(pgs, rootUrl) ELSE buildTree(pgs, rootUrl)

\* the replacements of escapeXml, in the order it applies them
Entities == << [char |-> "&",  entity |-> <<"&", "a", "m", "p", ";">>],
               [char |-> "<",  entity |-> <<"&", "l", "t", ";">>],
               [char |-> ">",  entity |-> <<"&", "g", "t", ";">>],
               [char |-> "\"", entity |-> <<"&", "q", "u", "o", "t", ";">>],
               [char |-> "'",  entity |-> <<"&", "a", "p", "o", "s", ";">>] >>

\* str.replace(/c/g, entity)
ReplaceAll(str, e) ==
    Flatten([i \in 1..Len(str) |-> IF str[i] = e.char THEN e.entity ELSE <<str[i]>>])

RECURSIVE ReplaceEach(_, _)
ReplaceEach(str, es) ==
    IF es = <<>> THEN str ELSE ReplaceEach(ReplaceAll(str, Head(es)), Tail(es))

\* the ampersand replaced after the other characters instead of before them
escapeXml_AmpLast(str) == ReplaceEach(str, Tail(Entities) \o <<Head(Entities)>>)

escapeXml(str) == ReplaceEach(str, Entities)

\* Math.max(0.1, 1 - depth * 0.2).toFixed(1), in tenths
Priority(depth) == IF 10 - 2 * depth > 1 THEN 10 - 2 * depth ELSE 1

\* A sitemap document: the text before its <url> entries, the entries and
\* the text after them.
XmlHead == <<"<?xml version=\"1.0\" encoding=\"UTF-8\"?>",
             "<urlset xmlns=\"http://www.sitemaps.org/schemas/sitemap/0.9\">">>
XmlTail == <<"</urlset>">>

\* <url><loc>...</loc><priority>...</priority></url>
UrlEntry(loc, priority) == [loc |-> loc, priority |-> priority]

generateXml(pgs) ==
    LET ok == SelectSeq(pgs, LAMBDA p : p.status = "ok")
    IN  [head |-> XmlHead,
         urls |-> [i \in 1..Len(ok) |->
                      UrlEntry(escapeXml(Href(ok[i].url)), Priority(ok[i].depth))],
         tail |-> XmlTail]

\* xmlContent.length
XmlLength(xml) == Len(xml.head) + Len(xml.urls) + Len(xml.tail)

\* the minimal document for the start URL
MinimalXml(rootUrl) ==
    [head |-> XmlHead, urls |-> <<UrlEntry(escapeXml(Href(rootUrl)), 10)>>, tail |-> XmlTail]

\* let xmlContent = generateXml(pages); if (!xmlContent || xmlContent.length === 0) minimal
XmlContent(pgs, rootUrl) ==
    LET xml == generateXml(pgs)
    IN  IF XmlLength(xml) = 0 THEN MinimalXml(rootUrl) ELSE xml

\* The sitemap and the xmlContent of the returned result are functions of
\* the final pages and of normalizedStart, which nothing changes after the
\* return: they are read off the state of a finished crawl.
ResultSitemap == Sitemap(pages, normalizedStart)
ResultXml == XmlContent(pages, normalizedStart)

\* the result returned without the browser being closed
Finish_BrowserLeftOpen ==
    /\ pc = "loop"
    /\ ~LoopCond
    /\ LET final == MarkDuplicates(WithRoot(pages), duplicates) IN
         /\ pages' = final
         /\ result' = [pagesFound |-> PagesFound(final),
                       brokenLinks |-> BrokenCount(final),
                       duplicatePages |-> Cardinality(duplicates)]
         /\ lastProgress' = FinalProgress(final)
    /\ pc' = "done"
    /\ UNCHANGED <<scopeVars, evalVars, restVars, enqueuedTwice, browser,
                   maxDepth, baseOrigin, normalizedStart, robots, visited, queue,
                   duplicates, idCounter, cur, retryCount, errorRetries, recovered, openPages, pageInfo, fetched>>

\* the loop is left: root page, duplicates marked, sitemap, XML, statistics,
\* the final progress callback, the result, and the browser closed
Finish ==
    /\ pc = "loop"
    /\ ~LoopCond
    /\ LET final == MarkDuplicates(WithRoot(pages), duplicates) IN
         /\ pages' = final
         /\ result' = [pagesFound |-> PagesFound(final),
                       brokenLinks |-> BrokenCount(final),
                       duplicatePages |-> Cardinality(duplicates)]
         /\ lastProgress' = FinalProgress(final)
    /\ browser' = "closed"
    /\ pc' = "done"
    /\ UNCHANGED <<scopeVars, evalVars, restVars, enqueuedTwice,
                   maxDepth, baseOrigin, normalizedStart, robots, visited, queue,
                   duplicates, idCounter, cur, retryCount, errorRetries, recovered, openPages, pageInfo, fetched>>

Next ==
    \/ LaunchFails
    \/ Setup
    \/ SkipEntry
    \/ StartFetch
    \/ NewPage
    \/ PageLost
    \/ ReplacePage
    \/ RateLimited
    \/ HttpError
    \/ RetryAfterError
    \/ FailAfterError
    \/ PageClosed
    \/ PageOk
    \/ RecordPage
    \/ Finish

Spec == Init /\ [][Next]_vars

\* every await of the crawl settles (each wait has a timeout), so the crawl
\* takes its next step whenever it has one; which outcome a fetch has is the
\* server's choice and gets no fairness
FairSpec == Init /\ [][Next]_vars /\ WF_vars(Next)

(***************************************************************************)
(* isInternalLink applied to arbitrary arguments.                          *)
(***************************************************************************)
ScopeSchemes == {"http", "https"}
ScopeHosts == {"a.com", "b.com", "c.com"}
ScopePorts == {"", "8080"}
ScopePaths == {<<"/">>, <<"/", "x">>}

ScopeUrls == {Url(s, h, p, path, <<>>, <<>>) :
                 s \in ScopeSchemes, h \in ScopeHosts, p \in ScopePorts, path \in ScopePaths}

ScopeBases == {Origin(u) : u \in ScopeUrls}

ScopeInit ==
    /\ CrawlInit
    /\ EvalIdle
    /\ WorkerIdle
    /\ NormIdle
    /\ WaitIdle
    /\ ImproveIdle
    /\ scopeUrl \in ScopeUrls
    /\ scopeBase \in ScopeBases
    /\ scopeOut = NotApplied

ApplyIsInternalLink ==
    /\ ~scopeOut.applied
    /\ scopeOut' = [applied |-> TRUE, value |-> isInternalLink(scopeUrl, scopeBase)]
    /\ UNCHANGED <<scopeUrl, scopeBase, crawlVars, restVars, evalVars>>

ScopeNext == ApplyIsInternalLink

ScopeSpec == ScopeInit /\ [][ScopeNext]_vars

(***************************************************************************)
(* safeEvaluate (crawler.ts 83-152) applied on its own, and what the       *)
(* extraction of crawlPage (463-472, 1094-1120, 1193-1236) makes of it.    *)
(***************************************************************************)
\* what an attempt can meet: the read gives a value; the rendering context
\* is lost (any of the messages tested at 127-137); another error; the page
\* is already closed
Outcomes == {"value", "contextLost", "otherError", "closed"}

NullValue == "null"

\* fallback ?? null
FallbackOrNull(fallback) == IF fallback = Undefined THEN NullValue ELSE fallback

EvalInit ==
    /\ CrawlInit
    /\ ScopeIdle
    /\ WorkerIdle
    /\ NormIdle
    /\ WaitIdle
    /\ ImproveIdle
    /\ evMaxRetries \in 0..EvalRetriesMax
    /\ evScript \in [1..(EvalRetriesMax + 1) -> Outcomes]
    /\ evFallback \in {Undefined, "fallback"}
    /\ evAttempt = 0
    /\ evOut = NotCalled
    /\ evInfo = NoInfo

\* the loop is at attempt evAttempt <= maxRetries and this attempt meets outcome
Attempting(outcome) ==
    /\ evOut.state = "running"
    /\ evAttempt <= evMaxRetries
    /\ evScript[evAttempt + 1] = outcome

EvalUnchanged == UNCHANGED <<crawlVars, restVars, scopeVars, evScript, evMaxRetries, evFallback, evInfo>>

\* if (page.isClosed()) return fallback ?? null
EvalPageClosed ==
    /\ Attempting("closed")
    /\ evOut' = [state |-> "returned", value |-> FallbackOrNull(evFallback)]
    /\ UNCHANGED evAttempt
    /\ EvalUnchanged

\* return result
EvalResult ==
    /\ Attempting("value")
    /\ evOut' = [state |-> "returned", value |-> "Value"]
    /\ UNCHANGED evAttempt
    /\ EvalUnchanged

\* a lost context answered with the fallback at once, without another attempt
EvalContextLost_NoRetry ==
    /\ Attempting("contextLost")
    /\ evOut' = [state |-> "returned", value |-> FallbackOrNull(evFallback)]
    /\ UNCHANGED evAttempt
    /\ EvalUnchanged

\* a context error: continue while attempt < maxRetries, else return fallback ?? null
EvalContextLost ==
    /\ Attempting("contextLost")
    /\ IF evAttempt < evMaxRetries
       THEN evAttempt' = evAttempt + 1 /\ UNCHANGED evOut
       ELSE /\ evOut' = [state |-> "returned", value |-> FallbackOrNull(evFallback)]
            /\ UNCHANGED evAttempt
    /\ EvalUnchanged

\* for other errors, throw them
EvalThrows ==
    /\ Attempting("otherError")
    /\ evOut' = [state |-> "threw", value |-> Undefined]
    /\ UNCHANGED evAttempt
    /\ EvalUnchanged

\* title = (await safeEvaluate(...)) || "Untitled"; the page is returned ok
ExtractTitle ==
    /\ evOut.state = "returned"
    /\ evInfo = NoInfo
    /\ evInfo' = [url |-> Root,
                  title |-> IF evOut.value = NullValue THEN "Untitled" ELSE evOut.value,
                  status |-> "ok", links |-> <<>>]
    /\ UNCHANGED <<crawlVars, restVars, scopeVars, evScript, evMaxRetries, evFallback, evAttempt, evOut>>

\* an error safeEvaluate threw is no context error: it is thrown on at 1119
\* and the catch block returns the broken page
ExtractFails ==
    /\ evOut.state = "threw"
    /\ evInfo = NoInfo
    /\ evInfo' = Broken(Root, "Error: message")
    /\ UNCHANGED <<crawlVars, restVars, scopeVars, evScript, evMaxRetries, evFallback, evAttempt, evOut>>

EvalNext ==
    \/ EvalPageClosed
    \/ EvalResult
    \/ EvalContextLost
    \/ EvalThrows
    \/ ExtractTitle
    \/ ExtractFails

EvalSpec == EvalInit /\ [][EvalNext]_vars

(***************************************************************************)
(* startCrawlWorker (db.ts 43-157): the progress entry, the persisted      *)
(* crawl record and the sitemap record around one crawlWebsite call.       *)
(* crawlWebsite is taken by its interface: progress callbacks, then a      *)
(* result, or an error before any callback (setup of crawlWebsite).        *)
(* Messages are sequences of message parts.                                *)
(***************************************************************************)
\* the messages crawlWebsite can throw with; the empty one is an error
\* without a message
CrawlErrors == {<<"Invalid URL">>, <<"Failed to launch the browser process">>, NoMessage}

\* the messages storage.getCrawl / storage.createSitemap can reject with
StorageErrors == {<<"storage error">>}

\* pagesFound / brokenLinks / duplicatePages of a returned CrawlResult
WorkerResults == {[pagesFound |-> n, brokenLinks |-> b, duplicatePages |-> d] :
                      n \in 1..WorkerPages, b \in 0..1, d \in 0..1}

\* error.message || "Unknown error"
MessageOrUnknown(msg) == IF msg = NoMessage THEN <<"Unknown error">> ELSE msg

SitemapFailure_Plain(msg) == msg

\* `Crawl completed but sitemap creation failed: ${sitemapError.message}`
SitemapFailure(msg) == <<"Crawl completed but sitemap creation failed: ">> \o msg

\* Crawl.findByIdAndUpdate(id, {$set: updates}): the fields of updates
\* replace those of the record
updateCrawl(crawl, updates) ==
    [f \in DOMAIN crawl |-> IF f \in DOMAIN updates THEN updates[f] ELSE crawl[f]]

WorkerInit ==
    /\ CrawlInit
    /\ ScopeIdle
    /\ EvalIdle
    /\ NormIdle
    /\ WaitIdle
    /\ ImproveIdle
    /\ wpc = "idle"
    /\ wOutcome \in {"throws", "returns"}
    /\ wError \in CrawlErrors
    /\ wResult \in WorkerResults
    /\ wCalls = 0
    /\ progressEntry = NoProgressEntry
    /\ dbCrawl = PendingCrawl
    /\ dbSitemap = 0
    /\ inflight = {}
    /\ wTimer = "unset"
    /\ wSitemapError = NoMessage

WorkerOthers == <<crawlVars, scopeVars, evalVars, normVars, waitVars, improveVars>>

\* progressMap.set(crawlId, {status: "crawling", ...}), then the first
\* updateCrawl is awaited
StartWorker ==
    /\ wpc = "idle"
    /\ progressEntry' = [status |-> "crawling", pagesFound |-> 0, queueSize |-> 1,
                         progress |-> 0, errorMessage |-> NoMessage]
    /\ wpc' = "starting"
    /\ UNCHANGED <<WorkerOthers, wOutcome, wError, wResult, wCalls, dbCrawl, dbSitemap,
                   inflight, wTimer, wSitemapError>>

\* the first updateCrawl resolves and the background task is started
InitialWrite ==
    /\ wpc = "starting"
    /\ dbCrawl' = updateCrawl(dbCrawl, [status |-> "crawling"])
    /\ wpc' = "crawling"
    /\ UNCHANGED <<WorkerOthers, wOutcome, wError, wResult, wCalls, progressEntry,
                   dbSitemap, inflight, wTimer, wSitemapError>>

\* the first updateCrawl rejects: startCrawlWorker rejects before the
\* background task exists
InitialWriteRejects ==
    /\ wpc = "starting"
    /\ wpc' = "rejected"
    /\ UNCHANGED <<WorkerOthers, wOutcome, wError, wResult, wCalls, progressEntry,
                   dbCrawl, dbSitemap, inflight, wTimer, wSitemapError>>

\* the payloads crawlWebsite may hand to onProgress next: pagesFound never
\* exceeds the result's and never goes back
CallbackPayloads ==
    {[pagesFound |-> n, queueSize |-> q, progress |-> g] :
         n \in progressEntry.pagesFound..wResult.pagesFound,
         q \in 0..1, g \in {0, 50, 100}}

\* updateProgress: the payload is merged into the progress entry and, when
\* more than 2000 ms passed since the last one, an updateCrawl is issued
\* without being awaited
UpdateProgress ==
    /\ wpc = "crawling"
    /\ wOutcome = "returns"
    /\ wCalls < WorkerCalls
    /\ \E p \in CallbackPayloads, due \in BOOLEAN :
         LET updated == [progressEntry EXCEPT !.pagesFound = p.pagesFound,
                                              !.queueSize = p.queueSize,
                                              !.progress = p.progress] IN
           /\ progressEntry' = updated
           /\ inflight' = IF due
                            THEN inflight \cup {[pagesFound |-> updated.pagesFound,
                                                 status |-> updated.status]}
                            ELSE inflight
    /\ wCalls' = wCalls + 1
    /\ UNCHANGED <<WorkerOthers, wpc, wOutcome, wError, wResult, dbCrawl, dbSitemap,
                   wTimer, wSitemapError>>

\* a throttled updateCrawl reaches the database
ThrottledWriteLands ==
    /\ \E w \in inflight :
         /\ dbCrawl' = updateCrawl(dbCrawl, w)
         /\ inflight' = inflight \ {w}
    /\ UNCHANGED <<WorkerOthers, wpc, wOutcome, wError, wResult, wCalls, progressEntry,
                   dbSitemap, wTimer, wSitemapError>>

\* crawlWebsite returns: the progress entry is set to completed and the
\* final updateCrawl is awaited
CrawlReturns ==
    /\ wpc = "crawling"
    /\ wOutcome = "returns"
    /\ progressEntry' = [status |-> "completed", pagesFound |-> wResult.pagesFound,
                         queueSize |-> 0, progress |-> 100, errorMessage |-> NoMessage]
    /\ wpc' = "completing"
    /\ UNCHANGED <<WorkerOthers, wOutcome, wError, wResult, wCalls, dbCrawl, dbSitemap,
                   inflight, wTimer, wSitemapError>>

\* the final updateCrawl resolves
CompletedWrite ==
    /\ wpc = "completing"
    /\ dbCrawl' = updateCrawl(dbCrawl, [status |-> "completed",
                                        pagesFound |-> wResult.pagesFound,
                                        brokenLinks |-> wResult.brokenLinks,
                                        duplicatePages |-> wResult.duplicatePages,
                                        completedAt |-> TRUE])
    /\ wpc' = "sitemap"
    /\ UNCHANGED <<WorkerOthers, wOutcome, wError, wResult, wCalls, progressEntry,
                   dbSitemap, inflight, wTimer, wSitemapError>>

\* getCrawl and createSitemap resolve: the sitemap record exists and the
\* finally block sets the clean-up timer
SitemapCreated ==
    /\ wpc = "sitemap"
    /\ dbSitemap' = dbSitemap + 1
    /\ wTimer' = "set"
    /\ wpc' = "ended"
    /\ UNCHANGED <<WorkerOthers, wOutcome, wError, wResult, wCalls, progressEntry,
                   dbCrawl, inflight, wSitemapError>>

\* the catch block of the background task: progress entry and record are
\* set to failed with the message; the finally block sets the timer
Fail_NoMessage(msg) ==
    /\ progressEntry' = [status |-> "failed", pagesFound |-> 0, queueSize |-> 0,
                         progress |-> 0, errorMessage |-> MessageOrUnknown(msg)]
    /\ dbCrawl' = updateCrawl(dbCrawl, [status |-> "failed"])
    /\ wTimer' = "set"
    /\ wpc' = "ended"

Fail(msg) ==
    /\ progressEntry' = [status |-> "failed", pagesFound |-> 0, queueSize |-> 0,
                         progress |-> 0, errorMessage |-> MessageOrUnknown(msg)]
    /\ dbCrawl' = updateCrawl(dbCrawl, [status |-> "failed",
                                        errorMessage |-> MessageOrUnknown(msg)])
    /\ wTimer' = "set"
    /\ wpc' = "ended"

\* getCrawl or createSitemap rejects: the inner catch rethrows with the
\* prefixed message and the outer catch records the failure
SitemapFails ==
    /\ wpc = "sitemap"
    /\ \E msg \in StorageErrors :
         /\ wSitemapError' = msg
         /\ Fail(SitemapFailure(msg))
    /\ UNCHANGED <<WorkerOthers, wOutcome, wError, wResult, wCalls, dbSitemap, inflight>>

\* crawlWebsite throws: the outer catch records the failure
CrawlThrows ==
    /\ wpc = "crawling"
    /\ wOutcome = "throws"
    /\ Fail(wError)
    /\ UNCHANGED <<WorkerOthers, wOutcome, wError, wResult, wCalls, dbSitemap, inflight,
                   wSitemapError>>

\* five minutes after the end: progressMap.delete(crawlId)
CleanupTimer ==
    /\ wTimer = "set"
    /\ progressEntry' = NoProgressEntry
    /\ wTimer' = "fired"
    /\ UNCHANGED <<WorkerOthers, wpc, wOutcome, wError, wResult, wCalls, dbCrawl,
                   dbSitemap, inflight, wSitemapError>>

WorkerNext ==
    \/ StartWorker
    \/ InitialWrite
    \/ InitialWriteRejects
    \/ UpdateProgress
    \/ ThrottledWriteLands
    \/ CrawlReturns
    \/ CompletedWrite
    \/ SitemapCreated
    \/ SitemapFails
    \/ CrawlThrows
    \/ CleanupTimer

WorkerSpec == WorkerInit /\ [][WorkerNext]_vars

(***************************************************************************)
(* normalizeUrl (crawler.ts 176-210) on strings: the argument is parsed,   *)
(* normalized, and serialized again, so that applying it to its own result *)
(* parses that result anew.                                                *)
(***************************************************************************)
\* the first position of character c in str, Len(str) + 1 if there is none
IndexOf(str, c) ==
    IF \E i \in 1..Len(str) : str[i] = c
        THEN CHOOSE i \in 1..Len(str) : str[i] = c /\ \A j \in 1..(i - 1) : str[j] # c
        ELSE Len(str) + 1

\* new URL(url) on an absolute URL string: scheme, host, optional port,
\* then path, '?' query and '#' fragment; an empty path is "/"
parseUrl(str) ==
    LET hasPort == Len(str) >= 5 /\ str[4] = ":"
        rest == SubSeq(str, IF hasPort THEN 6 ELSE 4, Len(str))
        h == IndexOf(rest, "#")
        beforeHash == SubSeq(rest, 1, h - 1)
        q == IndexOf(beforeHash, "?")
        path == SubSeq(beforeHash, 1, q - 1)
    IN  [scheme |-> str[1], host |-> str[3],
         port |-> IF hasPort THEN str[5] ELSE "",
         path |-> IF path = <<>> THEN <<"/">> ELSE path,
         query |-> SubSeq(beforeHash, q + 1, Len(beforeHash)),
         hash |-> SubSeq(rest, h + 1, Len(rest))]

\* normalizeUrl(url, baseUrl) for an absolute url: string in, string out
normalizeString(str) == Href(normalizeUrl(parseUrl(str)))

NormPorts == {"", "8080"}
NormPaths == {<<"/">>, <<"/", "/">>, <<"/", "x">>, <<"/", "x", "/">>,
              <<"/", "x", "/", "/">>, <<"/", "x", "/", "y", "/">>}
NormQueries == {<<>>, <<"k">>, <<"k", "/">>, <<"k", "/", "/">>}
NormHashes == {<<>>, <<"t">>, <<"t", "/">>, <<"/", "p">>, <<"/", "p", "/">>}

\* the URL strings normalizeUrl is applied to
NormUrls == {Href([scheme |-> "https", host |-> "a.com", port |-> p,
                   path |-> pa, query |-> q, hash |-> h]) :
                 p \in NormPorts, pa \in NormPaths, q \in NormQueries, h \in NormHashes}

NormInit ==
    /\ CrawlInit
    /\ ScopeIdle
    /\ EvalIdle
    /\ WorkerIdle
    /\ WaitIdle
    /\ ImproveIdle
    /\ normUrl \in NormUrls
    /\ normOnce = NotApplied
    /\ normTwice = NotApplied

NormOthers == <<crawlVars, scopeVars, evalVars, workerVars, waitVars, improveVars>>

\* normalizeUrl(u, b)
NormalizeOnce ==
    /\ ~normOnce.applied
    /\ normOnce' = [applied |-> TRUE, value |-> normalizeString(normUrl)]
    /\ UNCHANGED <<NormOthers, normUrl, normTwice>>

\* normalizeUrl(normalizeUrl(u, b), b)
NormalizeTwice ==
    /\ normOnce.applied
    /\ ~normTwice.applied
    /\ normTwice' = [applied |-> TRUE, value |-> normalizeString(normOnce.value)]
    /\ UNCHANGED <<NormOthers, normUrl, normOnce>>

NormNext ==
    \/ NormalizeOnce
    \/ NormalizeTwice

NormSpec == NormInit /\ [][NormNext]_vars

(***************************************************************************)
(* The suspensions of one page fetch (crawler.ts 522-539, 720-730,         *)
(* 930-938), with time in ms advancing in steps of the poll interval.      *)
(***************************************************************************)
\* the timeout arguments waitForNavigationComplete is called with
NavigationTimeouts == {1000, 2000, 3000}

\* response.headers()["retry-after"]: absent, or a number of seconds
RetryAfterHeaders == {Null, 0, 1, RetryAfterMax}

\* retryAfter ? parseInt(retryAfter) * 1000 : 5000
RateLimitDelay(retryAfter) ==
    IF retryAfter = Null THEN RateLimitBackoff ELSE retryAfter * 1000

WaitOthers == <<crawlVars, scopeVars, evalVars, workerVars, normVars, improveVars>>

\* crawlPage enters one of its suspensions
WaitInit ==
    /\ CrawlInit
    /\ ScopeIdle
    /\ EvalIdle
    /\ WorkerIdle
    /\ NormIdle
    /\ ImproveIdle
    /\ waitClock = 0
    /\ waitState = "waiting"
    /\ \/ /\ waitKind = "navigation"
          /\ navigationInProgress \in BOOLEAN
          /\ pendingRequests = 0
          /\ IF navigationInProgress
               THEN waitMode = "poll" /\ waitArg \in NavigationTimeouts
               ELSE waitMode = "timer" /\ waitArg = SettleDelay
       \/ /\ waitKind = "pendingRequests"
          /\ navigationInProgress = FALSE
          /\ pendingRequests \in 1..PendingMax
          /\ waitMode = "timer"
          /\ waitArg = NETWORK_IDLE_TIMEOUT
       \/ /\ waitKind = "rateLimit"
          /\ navigationInProgress = FALSE
          /\ pendingRequests = 0
          /\ waitMode = "timer"
          /\ \E retryAfter \in RetryAfterHeaders : waitArg = RateLimitDelay(retryAfter)

\* time passes by one poll interval; a timer that is due fires first; a
\* poll runs checkNavigation: resolve when no navigation is in progress or
\* Date.now() - startTime > timeout
Tick ==
    /\ waitState = "waiting"
    /\ waitMode = "timer" => waitClock < waitArg
    /\ waitClock' = waitClock + PollInterval
    /\ IF waitMode = "poll" /\ (~navigationInProgress \/ waitClock' > waitArg)
         THEN waitState' = "resolved" /\ navigationInProgress' = FALSE
         ELSE UNCHANGED <<waitState, navigationInProgress>>
    /\ UNCHANGED <<WaitOthers, waitKind, waitMode, waitArg, pendingRequests>>

\* the setTimeout of the suspension fires
TimerFires ==
    /\ waitState = "waiting"
    /\ waitMode = "timer"
    /\ waitClock >= waitArg
    /\ waitState' = "resolved"
    /\ UNCHANGED <<WaitOthers, waitKind, waitMode, waitArg, waitClock, navigationInProgress,
                   pendingRequests>>

\* page.on("framenavigated"): the page navigates again
FrameNavigated ==
    /\ waitState = "waiting"
    /\ waitKind = "navigation"
    /\ waitMode = "poll"
    /\ ~navigationInProgress
    /\ navigationInProgress' = TRUE
    /\ UNCHANGED <<WaitOthers, waitKind, waitMode, waitArg, waitClock, waitState,
                   pendingRequests>>

\* 500 ms after the last framenavigated: navigationInProgress = false
NavigationSettles ==
    /\ waitState = "waiting"
    /\ waitKind = "navigation"
    /\ waitMode = "poll"
    /\ navigationInProgress
    /\ navigationInProgress' = FALSE
    /\ UNCHANGED <<WaitOthers, waitKind, waitMode, waitArg, waitClock, waitState,
                   pendingRequests>>

\* page.on("request") for an xhr or fetch request: pendingRequests++
RequestStarts ==
    /\ waitState = "waiting"
    /\ waitKind = "pendingRequests"
    /\ pendingRequests < PendingMax
    /\ pendingRequests' = pendingRequests + 1
    /\ UNCHANGED <<WaitOthers, waitKind, waitMode, waitArg, waitClock, waitState,
                   navigationInProgress>>

\* page.on("response") for an xhr or fetch request: the count goes down and
\* networkIdleResolve() is called when it reaches 0
ResponseArrives ==
    /\ waitState = "waiting"
    /\ waitKind = "pendingRequests"
    /\ pendingRequests > 0
    /\ pendingRequests' = pendingRequests - 1
    /\ waitState' = IF pendingRequests' = 0 THEN "resolved" ELSE waitState
    /\ UNCHANGED <<WaitOthers, waitKind, waitMode, waitArg, waitClock, navigationInProgress>>

WaitNext ==
    \/ Tick
    \/ TimerFires
    \/ FrameNavigated
    \/ NavigationSettles
    \/ RequestStarts
    \/ ResponseArrives

WaitSpec == WaitInit /\ [][WaitNext]_vars

(***************************************************************************)
(* The improve endpoint (routes, POST /api/sitemaps/:crawlId/improve) and  *)
(* the two storage calls it makes.  Each await of the handler is a point   *)
(* where the handlers of other requests may run.                           *)
(***************************************************************************)
ImproveOthers == <<crawlVars, scopeVars, evalVars, workerVars, normVars, waitVars>>

\* the sitemap documents the crawl may have when the requests arrive
StoredSitemaps ==
    {NoSitemap} \cup
    [found : {TRUE}, userId : {"owner"}, originalJson : BOOLEAN, isImproved : BOOLEAN,
     improvedJson : {Null}, aiExplanation : {Null}]

\* Sitemap.findOne({ crawlId }).lean()
getSitemapByCrawlId == storedSitemap

\* Sitemap.findByIdAndUpdate(id, { $set: updates }, { new: true })
updateSitemap(doc, updates) ==
    IF doc.found
    THEN [f \in DOMAIN doc |-> IF f \in DOMAIN updates THEN updates[f] ELSE doc[f]]
    ELSE doc

ImproveInit ==
    /\ CrawlInit
    /\ ScopeIdle
    /\ EvalIdle
    /\ WorkerIdle
    /\ NormIdle
    /\ WaitIdle
    /\ apiKey \in BOOLEAN
    /\ storedSitemap \in StoredSitemaps
    /\ reqPc = [r \in Requests |-> "idle"]
    /\ reqUser = [r \in Requests |-> "owner"]
    /\ reqSitemap = [r \in Requests |-> NoSitemap]
    /\ reqResponse = [r \in Requests |-> NoResponse]
    /\ analyzeCalls = 0
    /\ improvedWrites = 0

\* res.status(status).json({ message })
Answer(r, status, message) ==
    /\ reqPc' = [reqPc EXCEPT ![r] = "answered"]
    /\ reqResponse' = [reqResponse EXCEPT ![r] = [status |-> status, message |-> message]]

\* the handler starts: the key check, then the call of getSitemapByCrawlId
ReceiveImprove(r) ==
    /\ reqPc[r] = "idle"
    /\ \E user \in Users : reqUser' = [reqUser EXCEPT ![r] = user]
    /\ IF ~apiKey
       THEN Answer(r, 500, "OpenAI API key not configured. Please set OPENAI_API_KEY in your environment variables.")
       ELSE /\ reqPc' = [reqPc EXCEPT ![r] = "getSitemap"]
            /\ UNCHANGED reqResponse
    /\ UNCHANGED <<ImproveOthers, apiKey, storedSitemap, reqSitemap, analyzeCalls,
                   improvedWrites>>

\* getSitemapByCrawlId resolves; the checks on the document it returned, and
\* the call of analyzeSitemap when they all pass
SitemapRead(r) ==
    /\ reqPc[r] = "getSitemap"
    /\ LET sitemap == getSitemapByCrawlId
       IN  /\ reqSitemap' = [reqSitemap EXCEPT ![r] = sitemap]
           /\ IF ~sitemap.found
                THEN Answer(r, 404, "Sitemap not found") /\ UNCHANGED analyzeCalls
              ELSE IF sitemap.userId # reqUser[r]
                THEN Answer(r, 403, "Access denied") /\ UNCHANGED analyzeCalls
              ELSE IF sitemap.isImproved
                THEN Answer(r, 400, "Sitemap already improved") /\ UNCHANGED analyzeCalls
              ELSE IF ~sitemap.originalJson
                THEN Answer(r, 400, "No sitemap data available to improve")
                     /\ UNCHANGED analyzeCalls
              ELSE /\ reqPc' = [reqPc EXCEPT ![r] = "analyzing"]
                   /\ analyzeCalls' = analyzeCalls + 1
                   /\ UNCHANGED reqResponse
    /\ UNCHANGED <<ImproveOthers, apiKey, storedSitemap, reqUser, improvedWrites>>

\* analyzeSitemap resolves and the handler calls updateSitemap
AnalyzeReturns(r) ==
    /\ reqPc[r] = "analyzing"
    /\ reqPc' = [reqPc EXCEPT ![r] = "updating"]
    /\ UNCHANGED <<ImproveOthers, apiKey, storedSitemap, reqUser, reqSitemap, reqResponse,
                   analyzeCalls, improvedWrites>>

\* analyzeSitemap rejects: the catch block answers 500
AnalyzeThrows(r) ==
    /\ reqPc[r] = "analyzing"
    /\ Answer(r, 500, "Failed to improve sitemap")
    /\ UNCHANGED <<ImproveOthers, apiKey, storedSitemap, reqUser, reqSitemap,
                   analyzeCalls, improvedWrites>>

\* updateSitemap lands with the improvement of request r, and res.json(updated)
SitemapUpdated(r) ==
    /\ reqPc[r] = "updating"
    /\ storedSitemap' = updateSitemap(storedSitemap,
                            [improvedJson |-> r, aiExplanation |-> r, isImproved |-> TRUE])
    /\ improvedWrites' = improvedWrites + 1
    /\ Answer(r, 200, "")
    /\ UNCHANGED <<ImproveOthers, apiKey, reqUser, reqSitemap, analyzeCalls>>

ImproveNext ==
    \E r \in Requests :
        \/ ReceiveImprove(r)
        \/ SitemapRead(r)
        \/ AnalyzeReturns(r)
        \/ AnalyzeThrows(r)
        \/ SitemapUpdated(r)

ImproveSpec == ImproveInit /\ [][ImproveNext]_vars

(***************************************************************************)
(* Properties.                                                             *)
(***************************************************************************)
Range(seq) == {seq[i] : i \in 1..Len(seq)}

\* the links found on the recorded pages
Discovered == UNION {Range(pages[i].links) : i \in 1..Len(pages)}

\* the links of recorded pages that the loop expanded (depth < maxDepth)
Expanded == UNION {Range(pages[i].links) : i \in {j \in 1..Len(pages) : pages[j].depth < maxDepth}}

Fetching == pc \in {"crawlPage", "navigating", "recovering", "returned"}

\* C1: whatever the per-attempt outcomes, the crawl terminates: crawlWebsite
\* eventually returns or throws.
C1_Terminates == <>(pc \in {"done", "threw"})

\* C2: a dequeued URL is attempted at most MAX_RETRIES + 1 times, 429 retries
\* and transient-error retries counted alike.
C2_AttemptsBounded == pc = "navigating" => retryCount + 1 <= MAX_RETRIES + 1

\* C3: the scheduler calls crawlPage at most once for a queue URL.
C3_FetchedOnce == \A i, j \in 1..Len(fetched) : fetched[i] = fetched[j] => i = j

\* a URL was enqueued again before its visit and its second entry was dropped
C3_Witness == pc = "done" /\ \E u \in duplicates : u \in Range(fetched)

\* C4: every frontier entry, every fetch in progress and every record has
\* depth <= maxDepth.
C4_DepthBounded ==
    /\ \A i \in 1..Len(queue) : queue[i].depth <= maxDepth
    /\ \A i \in 1..Len(pages) : pages[i].depth <= maxDepth
    /\ Fetching => cur.depth <= maxDepth

\* a page at depth maxDepth exposed an in-scope link that was never visited,
\* and the crawl ended below the page limit
C4_Witness ==
    /\ pc = "done"
    /\ Len(pages) < PageCap
    /\ \E i \in 1..Len(pages) :
         /\ pages[i].depth = maxDepth
         /\ \E l \in Range(pages[i].links) :
              isInternalLink(l, baseOrigin) /\ l \notin visited

\* C5: there are never more than PageCap records and no fetch is in progress
\* once PageCap records exist.
C5_PageCap ==
    /\ Len(pages) <= PageCap
    /\ Fetching => Len(pages) < PageCap

\* the crawl ended at the limit with entries left in the frontier
C5_Witness == pc = "done" /\ Len(pages) = PageCap /\ Len(queue) > 0

\* C6: with a robots policy loaded, crawlPage is never called for a URL the
\* policy disallows, and a discovered disallowed link has no record and is
\* not counted in pagesFound.
C6_RobotsRespected ==
    robots.loaded =>
        /\ \A u \in Range(fetched) : isAllowed(robots, u)
        /\ \A u \in Discovered : ~isAllowed(robots, u) => ~HasPage(pages, u)
        /\ pc = "done" =>
             result.pagesFound =
                 Cardinality({k \in PageKeys : k \in Discovered => isAllowed(robots, k)})

\* a disallowed link was found on an expanded page and the queue was drained
C6_Witness ==
    /\ pc = "done"
    /\ robots.loaded
    /\ Len(queue) = 0
    /\ \E u \in Expanded : isInternalLink(u, baseOrigin) /\ ~isAllowed(robots, u)

\* C7: every URL crawlPage was called for and every frontier entry is in
\* scope of the seed's origin, and so is the key of every record.
C7_InScope ==
    /\ \A u \in Range(fetched) : isInternalLink(u, baseOrigin)
    /\ \A i \in 1..Len(queue) : isInternalLink(queue[i].url, baseOrigin)
    /\ \A k \in PageKeys : isInternalLink(k, baseOrigin)

\* an out-of-scope link was found on an expanded page and the queue was drained
C7_Witness ==
    /\ pc = "done"
    /\ Len(queue) = 0
    /\ \E u \in Expanded : ~isInternalLink(u, baseOrigin)

\* C8: the scope check is scheme-insensitive: with equal hostnames and no
\* explicit port on either side, http and https URLs are in scope of each other.
C8_SchemeInsensitive ==
    ( /\ scopeOut.applied
      /\ scopeUrl.host = scopeBase.host
      /\ scopeUrl.port = "" /\ scopeBase.port = ""
      /\ scopeUrl.scheme # scopeBase.scheme )
    => scopeOut.value

\* C9: no two records of a crawl result carry the same url value.
C9_UniqueUrls ==
    pc = "done" => \A i, j \in 1..Len(pages) : pages[i].url = pages[j].url => i = j

\* C10 as claimed: pagesFound is the number of records whose final status is
\* ok or duplicate.
C10_PagesFoundOkOrDuplicate ==
    pc = "done" =>
        result.pagesFound = CountStatus(pages, "ok") + CountStatus(pages, "duplicate")

\* C10 amended: pagesFound is the number of all records, whatever their final
\* status: ok, duplicate and broken.
C10_PagesFoundAllRecords ==
    pc = "done" =>
        result.pagesFound = CountStatus(pages, "ok") + CountStatus(pages, "duplicate")
                            + CountStatus(pages, "broken")

\* a finished crawl with a broken record and a duplicate record
C10_Witness ==
    /\ pc = "done"
    /\ CountStatus(pages, "broken") > 0
    /\ CountStatus(pages, "duplicate") > 0

\* the nodes of the tree that name node n as their parent, in order
ChildrenOf(tree, n) == SelectSeq(tree, LAMBDA m : m.parent = n.id)

\* C11: the pagesFound of a returned result equals the number of nodes of its
\* sitemap tree, in the hierarchical structure as in the flat one.
C11_PagesFoundIsNodeCount ==
    pc = "done" => result.pagesFound = Len(ResultSitemap)

\* the hierarchical half of C11 on its own: every record is attached exactly
\* once, under the record whose id is its parentId
C11_TreeHoldsEveryRecord ==
    (pc = "done" /\ ~isSPA(pages)) =>
        /\ result.pagesFound = Len(ResultSitemap)
        /\ \A i \in 1..Len(pages) :
              \E j \in 1..Len(ResultSitemap) :
                  /\ ResultSitemap[j].id = pages[i].id
                  /\ ResultSitemap[j].parent = pages[i].parentId
                  /\ \A k \in 1..Len(ResultSitemap) :
                        ResultSitemap[k].id = pages[i].id => k = j

\* C12: the xmlContent of a returned result has at least one <url> entry;
\* when no record has status ok it is the single-entry document of the root URL.
C12_XmlNeverEmpty ==
    pc = "done" =>
        /\ Len(ResultXml.urls) >= 1
        /\ CountStatus(pages, "ok") = 0 => ResultXml = MinimalXml(normalizedStart)

\* the text an XML reader gets back from escaped text: each entity replaced
\* by its character, left to right
RECURSIVE unescapeXml(_)
unescapeXml(str) ==
    IF str = <<>> THEN <<>>
    ELSE LET hits == {i \in 1..Len(Entities) : IsPrefix(Entities[i].entity, str)}
         IN  IF hits # {}
             THEN LET e == Entities[CHOOSE i \in hits : TRUE]
                  IN  <<e.char>> \o unescapeXml(SubSeq(str, Len(e.entity) + 1, Len(str)))
             ELSE <<Head(str)>> \o unescapeXml(Tail(str))

OkPages == SelectSeq(pages, LAMBDA p : p.status = "ok")

\* C13: the <url> entries of the document are, one for one and in order, the
\* records whose final status is ok (so none stands for a broken or duplicate
\* record), and un-escaping an entry's loc gives back its record's url.
C13_XmlRoundTrip ==
    pc = "done" =>
        /\ Len(ResultXml.urls) = Len(OkPages)
        /\ \A i \in 1..Len(OkPages) :
              unescapeXml(ResultXml.urls[i].loc) = Href(OkPages[i].url)

\* a finished crawl with an ok record whose url needs escaping and a
\* duplicate record that the document leaves out
C13_Witness ==
    /\ pc = "done"
    /\ \E i \in 1..Len(pages) :
          /\ pages[i].status = "ok"
          /\ escapeXml(Href(pages[i].url)) # Href(pages[i].url)
    /\ CountStatus(pages, "duplicate") > 0
    /\ Len(ResultXml.urls) < Len(pages)

RecordsOf(url) == {i \in 1..Len(pages) : pages[i].key = url}
QueuedFor(url) == {k \in 1..Len(queue) : queue[k].url = url}

\* C14: a URL that was enqueued twice before its first visit has, in the
\* finished crawl, exactly one record and is counted as a duplicate.
C14_DuplicateCounted ==
    pc = "done" =>
        \A u \in enqueuedTwice \cap visited :
            /\ Cardinality(RecordsOf(u)) = 1
            /\ u \in duplicates

\* C14 as the code has it: exactly one record; counted (and marked) as a
\* duplicate once no entry for the URL is left in the queue, which a crawl
\* that stopped at the page cap does not guarantee.
C14_DuplicateCountedWhenDequeued ==
    pc = "done" =>
        \A u \in enqueuedTwice \cap visited :
            /\ Cardinality(RecordsOf(u)) = 1
            /\ QueuedFor(u) = {} =>
                  /\ u \in duplicates
                  /\ result.duplicatePages >= 1
                  /\ \A i \in RecordsOf(u) : pages[i].status = "duplicate"
            /\ QueuedFor(u) # {} => Len(pages) >= PageCap

\* a finished crawl with a URL enqueued twice whose second entry was dequeued
C14_Witness ==
    /\ pc = "done"
    /\ \E u \in enqueuedTwice \cap visited : QueuedFor(u) = {} /\ u \in duplicates

\* C15: every record with a non-null parentId has a record with that id that
\* was recorded earlier and lies exactly one level higher; the only record
\* without a parent is the first one, the seed, so following parentId from
\* any record ends there and never cycles.
C15_ParentEarlierAndShallower ==
    \A i \in 1..Len(pages) :
        IF pages[i].parentId = Null
        THEN i = 1 /\ pages[i].depth = 0
        ELSE \E j \in 1..(i - 1) :
                /\ pages[j].id = pages[i].parentId
                /\ pages[j].depth = pages[i].depth - 1

\* a record two levels below the seed
C15_Witness ==
    \E i \in 1..Len(pages) :
        /\ pages[i].depth = 2
        /\ \E j \in 1..(i - 1) : pages[j].id = pages[i].parentId /\ pages[j].parentId # Null

\* C16: when the SPA heuristic fires, the sitemap is one root node whose
\* children are exactly the other visited pages, each once and at depth 1,
\* the root itself not among them, in the order of their URLs.
C16_FlatListsOtherPages ==
    (pc = "done" /\ isSPA(pages)) =>
        LET root == Head(ResultSitemap)
            kids == Tail(ResultSitemap)
        IN  /\ root.parent = Null
            /\ \A k \in 1..Len(kids) :
                  /\ kids[k].parent = root.id
                  /\ kids[k].depth = 1
                  /\ kids[k].id # root.id
            /\ \A i \in 1..Len(pages) :
                  pages[i].id # root.id =>
                      Cardinality({k \in 1..Len(kids) : kids[k].id = pages[i].id}) = 1
            /\ \A k, l \in 1..Len(kids) :
                  k < l => ~LocaleLess(Href(kids[l].url), Href(kids[k].url))

\* the titles crawlPage gives a broken PageInfo
ErrorTitles == {"Error status", "Error: message", "Error: Page closed"}

C18_RetryAfterContextLoss ==
    \A k \in 2..(evMaxRetries + 1) :
        (/\ k <= Len(evScript)
         /\ \A j \in 1..(k - 1) : evScript[j] = "contextLost"
         /\ evScript[k] = "value") =>
            /\ evOut.state # "threw"
            /\ evOut.state = "returned" => evOut.value = "Value"
            /\ evInfo # NoInfo => evInfo.status = "ok" /\ evInfo.title = "Value"

\* the first attempt lost the context, a later one read the value, and the
\* page came out ok
C18_Witness ==
    /\ Len(evScript) > 0
    /\ evScript[1] = "contextLost"
    /\ evAttempt >= 1
    /\ evOut = [state |-> "returned", value |-> "Value"]
    /\ evInfo # NoInfo
    /\ evInfo.status = "ok"

\* the seed's fetch came back with a non-429 HTTP error
SeedHttpError ==
    /\ Len(pages) >= 1
    /\ pages[1].key = normalizedStart
    /\ pages[1].title = "Error status"

\* C19: when the seed's fetch returns a non-429 HTTP error the result has
\* exactly one record, which is broken, brokenLinks = 1, and the sitemap is
\* one node without children.
C19_BrokenSeedAlone ==
    (pc = "done" /\ SeedHttpError) =>
        /\ Len(pages) = 1
        /\ pages[1].status = "broken"
        /\ result.pagesFound = 1
        /\ result.brokenLinks = 1
        /\ Len(ResultSitemap) = 1
        /\ ResultSitemap[1].url = normalizedStart
        /\ ChildrenOf(ResultSitemap, ResultSitemap[1]) = <<>>

\* a finished crawl whose seed answered with an HTTP error
C19_Witness ==
    /\ pc = "done"
    /\ SeedHttpError
    /\ result.brokenLinks = 1

\* C20: a progress callback issued from inside the loop reports at most 95;
\* the callback with progress = 100 and queueSize = 0 is issued when the
\* crawl returns its result and at no other time, so it is issued once, it is
\* the last one, and a crawl that throws never issues it.
C20_FinalProgressOnce ==
    /\ pc # "done" => lastProgress = NoProgress \/ lastProgress.progress <= 95
    /\ pc = "done" => lastProgress.progress = 100 /\ lastProgress.queueSize = 0
    /\ pc = "threw" => lastProgress = NoProgress

\* inside the loop, a callback whose ratio was 100 and that reported 95
C20_Witness ==
    /\ pc = "loop"
    /\ lastProgress # NoProgress
    /\ lastProgress.queueSize = 0
    /\ lastProgress.progress = 95

C22_CrawlFailureRecorded ==
    (wpc = "ended" /\ wOutcome = "throws") =>
        /\ dbCrawl.status = "failed"
        /\ dbCrawl.errorMessage = (IF wError = NoMessage THEN <<"Unknown error">> ELSE wError)
        /\ progressEntry # NoProgressEntry =>
              /\ progressEntry.status = "failed"
              /\ progressEntry.errorMessage = dbCrawl.errorMessage
        /\ dbSitemap = 0

\* crawlWebsite threw "Invalid URL" and the worker has ended
C22_Witness ==
    /\ wpc = "ended"
    /\ wOutcome = "throws"
    /\ wError = <<"Invalid URL">>
    /\ progressEntry # NoProgressEntry
    /\ dbCrawl.status = "failed"

\* what the record of a crawl that failed carries as its message
CrawlFailureMessages == {IF e = NoMessage THEN <<"Unknown error">> ELSE e : e \in CrawlErrors}

\* C23: when the crawl succeeded and creating the sitemap failed, the record
\* carries the "Crawl completed but sitemap creation failed" message, which
\* no failed crawl carries, and it is not left "completed" without a sitemap.
C23_SitemapFailureDistinct ==
    (wpc = "ended" /\ wSitemapError # NoMessage) =>
        /\ dbCrawl.errorMessage =
              <<"Crawl completed but sitemap creation failed: ">> \o wSitemapError
        /\ dbCrawl.errorMessage \notin CrawlFailureMessages
        /\ dbCrawl.status # "completed"
        /\ dbSitemap = 0

\* the crawl returned its result, the record was written "completed", and
\* creating the sitemap failed
C23_Witness ==
    /\ wpc = "ended"
    /\ wOutcome = "returns"
    /\ wSitemapError # NoMessage
    /\ dbCrawl.completedAt
    /\ dbCrawl.status = "failed"
    /\ inflight = {}

\* C24: normalizeUrl is idempotent: applied to its own result it returns
\* that result.
C24_NormalizeIdempotent ==
    normTwice.applied => normTwice.value = normOnce.value

\* C25: when robots.txt could not be loaded the crawl goes on and no URL is
\* skipped for robots reasons: the seed is fetched, and once the frontier is
\* drained every in-scope link of every expanded page has been fetched.
C25_NoPolicyAllowsAll ==
    (~robots.loaded /\ browser # "none") =>
        /\ pc # "threw"
        /\ pc = "done" => normalizedStart \in Range(fetched)
        /\ (pc = "done" /\ Len(queue) = 0) =>
              \A u \in Expanded : isInternalLink(u, baseOrigin) => u \in Range(fetched)

\* without a policy the crawl fetched a URL under /a, which the policy of
\* the other crawls disallows, and drained its frontier
C25_Witness ==
    /\ pc = "done"
    /\ ~robots.loaded
    /\ Len(queue) = 0
    /\ \E u \in Range(fetched) : IsPrefix(<<"/", "a">>, u.path)

\* C26: the returned page set is never empty: when the loop ended without a
\* record it holds exactly one synthesized record for the normalized seed
\* (depth 0, no parent), and otherwise exactly the records of the fetches.
C26_RootSynthesizedOnlyWhenEmpty ==
    pc = "done" =>
        /\ Len(pages) >= 1
        /\ fetched = <<>> =>
              /\ Len(pages) = 1
              /\ pages[1].key = normalizedStart /\ pages[1].url = normalizedStart
              /\ pages[1].depth = 0 /\ pages[1].parentId = Null
        /\ fetched # <<>> =>
              /\ PageKeys = Range(fetched)
              /\ Len(pages) = Len(fetched)

\* the seed was dropped by the robots gate and the crawl returned
C26_Witness ==
    /\ pc = "done"
    /\ fetched = <<>>
    /\ robots.loaded
    /\ Len(pages) = 1

\* C27: when the context is lost on every attempt of the title read (called
\* as extractTitle calls it: no fallback, two retries), the page comes out
\* broken with the title "Error: Context destroyed".
C27_PersistentContextLossBroken ==
    (/\ evMaxRetries = 2 /\ evFallback = Undefined
     /\ \A j \in 1..(evMaxRetries + 1) : evScript[j] = "contextLost"
     /\ evOut.state # "running"
     /\ evInfo # NoInfo) =>
        /\ evInfo.status = "broken"
        /\ evInfo.title = "Error: Context destroyed"

\* C28: 429 responses use up none of the retry budget of transient errors:
\* as long as the catch block has retried the fetch in progress fewer than
\* MAX_RETRIES times, a retryable error of the pending attempt is retried.
C28_RateLimitKeepsBudget ==
    (pc = "navigating" /\ errorRetries < MAX_RETRIES) => RetryAllowed(retryCount)

\* C29: an attempt that ends on a non-ok response other than 429 returns at
\* once, without another attempt, a broken page without links, and recording
\* that page adds nothing to the frontier.
C29_HttpErrorBrokenNoLinks ==
    [][ /\ (pc = "navigating" /\ pc' = "returned" /\ pageInfo'.title = "Error status") =>
              /\ pageInfo'.status = "broken"
              /\ pageInfo'.links = <<>>
              /\ retryCount' = retryCount
        /\ (pc = "returned" /\ pageInfo.title = "Error status") =>
              /\ queue' = queue
              /\ pages'[Len(pages')].status = "broken"
      ]_vars

\* a page below the depth limit, found through a link, answered with an HTTP
\* error and was recorded
C29_Witness ==
    /\ pc = "loop"
    /\ \E i \in 2..Len(pages) :
         /\ pages[i].title = "Error status"
         /\ pages[i].status = "broken"
         /\ pages[i].depth < maxDepth

\* C30: every suspension of a page fetch is over within a ceiling fixed by
\* the program, here its largest timeout constant, whatever the server does.
C30_WaitsBounded == waitState = "waiting" => waitClock <= DEFAULT_TIMEOUT

\* C31: at most one rendering page is open at any time, and none is open
\* outside an attempt of crawlPage: every page is closed before the attempt
\* returns, retries or replaces it.
C31_OnePageAtATime ==
    /\ openPages \in {0, 1}
    /\ pc # "navigating" => openPages = 0
    /\ pc = "navigating" => openPages = 1

\* a replacement page is open for an attempt that follows a 429 retry and a
\* retry after an error of the same fetch
C31_Witness ==
    /\ pc = "navigating"
    /\ openPages = 1
    /\ recovered
    /\ errorRetries >= 1
    /\ retryCount > errorRetries

\* the recorded pages whose links were queued and that link to url
ExpandedParents(url) ==
    {k \in 1..Len(pages) : pages[k].depth < maxDepth /\ url \in Range(pages[k].links)}

Min(S) == CHOOSE x \in S : \A y \in S : x <= y

\* C32: the frontier is first-in first-out: depths never decrease along the
\* frontier nor along the records in creation order, the seed's record has
\* depth 0, and the depth of every other record is one more than the least
\* depth of the expanded pages that link to it, which makes it the length of
\* the shortest link path from the seed through expanded pages.
C32_BreadthFirstDepths ==
    /\ \A i, j \in 1..Len(queue) : i < j => queue[i].depth <= queue[j].depth
    /\ \A i, j \in 1..Len(pages) : i < j => pages[i].depth <= pages[j].depth
    /\ \A i \in 1..Len(pages) :
         IF pages[i].parentId = Null
           THEN pages[i].depth = 0
           ELSE /\ ExpandedParents(pages[i].key) # {}
                /\ pages[i].depth =
                      1 + Min({pages[k].depth : k \in ExpandedParents(pages[i].key)})

\* a recorded page is linked from expanded pages at two different depths
C32_Witness ==
    /\ pc = "done"
    /\ \E i \in 1..Len(pages) :
         \E k, l \in ExpandedParents(pages[i].key) : pages[k].depth < pages[l].depth

\* C33: once the worker of a successful crawl has ended and every write it
\* issued has been applied, the persisted status is "completed".
C33_CompletedStays ==
    (/\ wpc = "ended"
     /\ wOutcome = "returns"
     /\ wSitemapError = NoMessage
     /\ inflight = {}) => dbCrawl.status = "completed"

\* the steps the persisted status may take
ForwardSteps == {<<"pending", "crawling">>, <<"crawling", "completed">>,
                 <<"crawling", "failed">>}

\* C34: the persisted status only moves forward, pending -> crawling ->
\* completed or failed, and a status written "completed" or "failed" is final.
C34_StatusMovesForward ==
    [][dbCrawl'.status # dbCrawl.status =>
           <<dbCrawl.status, dbCrawl'.status>> \in ForwardSteps]_vars

\* the records of the fetches that crawlPage answered with a broken page
BrokenFetches == {i \in 1..Len(pages) : pages[i].title \in ErrorTitles}

\* C35: brokenLinks of the result is the number of fetched URLs whose fetch
\* came out broken, whether or not the URL was later marked as duplicate.
C35_BrokenLinksCountsBrokenFetches ==
    pc = "done" => result.brokenLinks = Cardinality(BrokenFetches)

\* C36: with a robots policy loaded, no node of the returned sitemap and no
\* <loc> of the returned document names a URL the policy disallows.
C36_DisallowedNeverInOutput ==
    (pc = "done" /\ robots.loaded) =>
        /\ \A n \in Range(ResultSitemap) : isAllowed(robots, n.url)
        /\ \A e \in Range(ResultXml.urls) :
              isAllowed(robots, parseUrl(unescapeXml(e.loc)))

\* C37: every entry of the progress map is removed in the end: once
\* startCrawlWorker and its background task have nothing left to do, the
\* entry is gone or the timer that removes it is set.
C37_ProgressEntryRemoved ==
    (wpc \in {"ended", "rejected"} /\ progressEntry # NoProgressEntry) => wTimer = "set"

\* C38: from one progress callback to the next neither pagesFound nor the
\* progress percentage goes down.
C38_ProgressNeverBackwards ==
    [][lastProgress.progress # Null =>
           /\ lastProgress'.pagesFound >= lastProgress.pagesFound
           /\ lastProgress'.progress >= lastProgress.progress]_vars

\* C39: whatever the interleaving of the improve requests on one crawl,
\* analyzeSitemap is called for at most one of them and at most one of them
\* writes the improved fields.
C39_ImprovedAtMostOnce ==
    analyzeCalls <= 1 /\ improvedWrites <= 1

=============================================================================
